---------------------------- MODULE Spec2Model ----------------------------
(***************************************************************************)
(* Model of the prompt utilities: template_loader.py (TemplateLoader) and  *)
(* prompt_optimizer.py (PromptOptimizer).                                  *)
(*                                                                         *)
(* A Python str is a sequence of one-character strings.  A fixed literal   *)
(* run of the source (a heading, a canned sentence) is kept as one element *)
(* of the sequence, written as the literal itself.  Identifiers and        *)
(* literals are transliterated to ASCII (basico for the source's first     *)
(* level name, and so on).  A Python value whose type varies is a record   *)
(* with a "type" field.                                                    *)
(***************************************************************************)
EXTENDS Integers, Sequences, FiniteSets, TLC

VARIABLES pc, file, self, args, ret

vars == <<pc, file, self, args, ret>>

(***************************************************************************)
(* Bounds of the model.                                                    *)
(***************************************************************************)
MaxTemplateLen == 6
MaxValores == 2

(***************************************************************************)
(* Python values.                                                          *)
(***************************************************************************)
PyNone == [type |-> "NoneType"]
PyDict(d) == [type |-> "dict", val |-> d]
PyList(l) == [type |-> "list", val |-> l]
PyStr(s) == [type |-> "str", val |-> s]
PyInt(i) == [type |-> "int", val |-> i]

StrUpTo(S, n) == UNION {[1..k -> S] : k \in 0..n}

(***************************************************************************)
(* str primitives.                                                         *)
(***************************************************************************)
\* Least index j >= from with s[j] = c, or 0 when there is none.
IndexOf(s, c, from) ==
  LET hits == {j \in from..Len(s) : s[j] = c}
  IN IF hits = {} THEN 0 ELSE CHOOSE j \in hits : \A k \in hits : j <= k

\* old in s
Contains(s, old) ==
  \E i \in 1..(Len(s) - Len(old) + 1) : SubSeq(s, i, i + Len(old) - 1) = old

\* s.replace(old, new) for a non-empty old: the non-overlapping occurrences,
\* left to right.
RECURSIVE ReplaceFrom(_, _, _, _)
ReplaceFrom(s, old, new, i) ==
  IF i > Len(s) - Len(old) + 1 THEN SubSeq(s, i, Len(s))
  ELSE IF SubSeq(s, i, i + Len(old) - 1) = old
       THEN new \o ReplaceFrom(s, old, new, i + Len(old))
       ELSE <<s[i]>> \o ReplaceFrom(s, old, new, i + 1)

Replace(s, old, new) == ReplaceFrom(s, old, new, 1)

\* sep.join(parts)
RECURSIVE Join(_, _)
Join(parts, sep) ==
  IF parts = <<>> THEN <<>>
  ELSE IF Len(parts) = 1 THEN parts[1]
  ELSE parts[1] \o sep \o Join(Tail(parts), sep)

\* re.findall(r'\{([^}]+)\}', texto): at an opening brace the match runs to
\* the first closing brace, and needs one character or more in between.
RECURSIVE FindAllFrom(_, _)
FindAllFrom(texto, i) ==
  IF i > Len(texto) THEN <<>>
  ELSE IF texto[i] = "{"
       THEN LET j == IndexOf(texto, "}", i + 1)
            IN IF j > i + 1
               THEN <<SubSeq(texto, i + 1, j - 1)>> \o FindAllFrom(texto, j + 1)
               ELSE FindAllFrom(texto, i + 1)
       ELSE FindAllFrom(texto, i + 1)

(***************************************************************************)
(* TemplateLoader.preencher_template                                       *)
(***************************************************************************)
_extrair_placeholders(texto) == FindAllFrom(texto, 1)

\* A dict of str to str is the sequence of its items in iteration order.
DictKeys(valores) == {valores[k][1] : k \in 1..Len(valores)}

\* [p for p in placeholders if p not in valores]
valores_faltantes(placeholders, valores) ==
  SelectSeq(placeholders, LAMBDA p : p \notin DictKeys(valores))

\* for chave, valor in valores.items(): replace "{chave}" when present
RECURSIVE PreencherLoop(_, _, _)
PreencherLoop(prompt_preenchido, valores, k) ==
  IF k > Len(valores) THEN prompt_preenchido
  ELSE LET placeholder == <<"{">> \o valores[k][1] \o <<"}">>
       IN PreencherLoop(
            IF Contains(prompt_preenchido, placeholder)
            THEN Replace(prompt_preenchido, placeholder, valores[k][2])
            ELSE prompt_preenchido,
            valores, k + 1)

preencher_template(template, valores) ==
  IF template = PyNone \/ DOMAIN template.val = {}
     \/ "template" \notin DOMAIN template.val
  THEN <<"Template invalido.">>
  ELSE LET prompt_template == template.val.template
           faltantes == valores_faltantes(_extrair_placeholders(prompt_template),
                                          valores)
       IN IF faltantes # <<>>
          THEN <<"Valores faltantes: ">> \o Join(faltantes, <<",", " ">>)
          ELSE PreencherLoop(prompt_template, valores, 1)

TemplateChars == {"{", "}", "a", "b"}
FillKeys == {<<"a">>, <<"b">>}
FillValues == {<<"x">>, <<"{", "a", "}">>, <<"{", "b", "}">>}

FillTemplates ==
  {PyNone, PyDict([nome |-> <<"a">>])}
    \cup {PyDict([nome |-> <<"a">>, template |-> t]) :
            t \in StrUpTo(TemplateChars, MaxTemplateLen)}

\* dicts of at most MaxValores items: the keys of a dict are distinct
FillValores ==
  {v \in StrUpTo(FillKeys \X FillValues, MaxValores) :
     \A i, j \in 1..Len(v) : i # j => v[i][1] # v[j][1]}

InitFill ==
  /\ pc = "call"
  /\ file = PyNone
  /\ self = PyNone
  /\ args \in [template : FillTemplates, valores : FillValores]
  /\ ret = PyNone

PreencherTemplate ==
  /\ pc = "call"
  /\ ret' = PyStr(preencher_template(args.template, args.valores))
  /\ pc' = "done"
  /\ UNCHANGED <<file, self, args>>

NextFill == PreencherTemplate

SpecFill == InitFill /\ [][NextFill]_vars

(***************************************************************************)
(* Statements about preencher_template.                                    *)
(***************************************************************************)
FillCalled ==
  /\ pc = "done"
  /\ args.template # PyNone
  /\ "template" \in DOMAIN args.template.val

FillText == args.template.val.template

\* The placeholder names of the format string that valores has no key for.
FillMissing ==
  LET names == _extrair_placeholders(FillText)
  IN {names[k] : k \in 1..Len(names)} \ DictKeys(args.valores)

ValueOf(valores, chave) ==
  valores[CHOOSE k \in 1..Len(valores) : valores[k][1] = chave][2]

\* The format string with each {name} occurrence replaced by the value of
\* name, in one pass over the format string: a value is never scanned.
RECURSIVE OnePassFrom(_, _, _)
OnePassFrom(texto, valores, i) ==
  IF i > Len(texto) THEN <<>>
  ELSE LET j == IF texto[i] = "{" THEN IndexOf(texto, "}", i + 1) ELSE 0
       IN IF j > i + 1
          THEN ValueOf(valores, SubSeq(texto, i + 1, j - 1))
                 \o OnePassFrom(texto, valores, j + 1)
          ELSE <<texto[i]>> \o OnePassFrom(texto, valores, i + 1)

\* The names of a list, each once, in order of first occurrence.
RECURSIVE FirstOccurrences(_)
FirstOccurrences(names) ==
  IF names = <<>> THEN <<>>
  ELSE LET init == SubSeq(names, 1, Len(names) - 1)
           last == names[Len(names)]
       IN IF \E k \in 1..Len(init) : init[k] = last
          THEN FirstOccurrences(init)
          ELSE FirstOccurrences(init) \o <<last>>

\* The dicts with the items of valores in another iteration order.
Reorderings(valores) ==
  {[k \in 1..Len(valores) |-> valores[f[k]]] :
     f \in {g \in [1..Len(valores) -> 1..Len(valores)] :
              \A a, b \in 1..Len(valores) : a # b => g[a] # g[b]}}

\* C1: when valores has a key for every placeholder of the format string,
\* the result is the format string with each {name} occurrence replaced by
\* valores[name], so that no placeholder of the format string remains.
C1_FilledIsOnePassSubstitution ==
  (FillCalled /\ FillMissing = {})
    => ret = PyStr(OnePassFrom(FillText, args.valores, 1))

\* C2: when valores lacks a placeholder name, the result reports the missing
\* names in order of first occurrence, each listed once.
C2_MissingListedOnce ==
  (FillCalled /\ FillMissing # {})
    => ret = PyStr(<<"Valores faltantes: ">>
                   \o Join(FirstOccurrences(
                             valores_faltantes(_extrair_placeholders(FillText),
                                               args.valores)),
                           <<",", " ">>))

\* C3: a value holding the text {k} of another key k is not scanned again,
\* so the result is the same for every iteration order of valores.
C3_OrderIndependent ==
  FillCalled
    => \A v \in Reorderings(args.valores) :
         ret = PyStr(preencher_template(args.template, v))

(***************************************************************************)
(* PromptOptimizer.otimizar_prompt                                         *)
(***************************************************************************)
Whitespace == {" ", "\n", "\t"}

\* Least index j >= from with s[j] in S (notin S when inside is FALSE), or 0
\* when there is none.
IndexIn(s, S, inside, from) ==
  LET hits == {j \in from..Len(s) : (s[j] \in S) = inside}
  IN IF hits = {} THEN 0 ELSE CHOOSE j \in hits : \A k \in hits : j <= k

\* s.split(): skip whitespace, take the characters up to the next whitespace
\* as a word, and go on after it.
RECURSIVE SplitWordsFrom(_, _)
SplitWordsFrom(s, from) ==
  LET start == IndexIn(s, Whitespace, FALSE, from)
  IN IF start = 0 THEN <<>>
     ELSE LET stop == IndexIn(s, Whitespace, TRUE, start)
          IN IF stop = 0 THEN <<SubSeq(s, start, Len(s))>>
             ELSE <<SubSeq(s, start, stop - 1)>> \o SplitWordsFrom(s, stop + 1)

SplitWords(s) == SplitWordsFrom(s, 1)

\* s.split(sep) for a one-character sep: one piece more than there are
\* separators, empty pieces kept.
RECURSIVE SplitOnFrom(_, _, _)
SplitOnFrom(s, sep, from) ==
  LET stop == IndexOf(s, sep, from)
  IN IF stop = 0 THEN <<SubSeq(s, from, Len(s))>>
     ELSE <<SubSeq(s, from, stop - 1)>> \o SplitOnFrom(s, sep, stop + 1)

SplitOn(s, sep) == SplitOnFrom(s, sep, 1)

_expandir_prompt(prompt) ==
  prompt \o <<"\n", "\n",
              "Por favor, forneca uma resposta detalhada e estruturada. ",
              "Inclua exemplos relevantes e passos concretos quando aplicavel. ",
              "Considere diferentes perspectivas e contextos.">>

_estruturar_prompt(prompt) ==
  <<"# INSTRUCAO", "\n">> \o prompt
    \o <<"\n", "\n",
         "# FORMATO DESEJADO", "\n",
         "- Comece com uma introducao concisa", "\n",
         "- Organize a informacao em secoes claras", "\n",
         "- Utilize bullets para pontos importantes", "\n",
         "- Conclua com um resumo aplicavel", "\n",
         "- Use linguagem precisa e exemplos quando necessario">>

RefinarContexto == <<"Entendendo o contexto completo fornecido">>

RefinarParametros ==
  <<"# PARAMETROS DE QUALIDADE", "\n",
    "1. Precisao: Forneca informacoes corretas e verificaveis", "\n",
    "2. Relevancia: Mantenha o foco no objetivo principal", "\n",
    "3. Estrutura: Organize a resposta de forma logica", "\n",
    "4. Profundidade: Equilibre detalhes suficientes sem prolixidade", "\n",
    "5. Clareza: Use linguagem simples e direta", "\n", "\n">>

\* _refinar_prompt taking the whole prompt, not its first line, as the
\* main objective.
_refinar_prompt_whole(prompt) ==
  <<"# OBJETIVO PRINCIPAL", "\n">> \o prompt \o <<"\n", "\n">>
    \o <<"# CONTEXTO", "\n">> \o RefinarContexto \o <<"\n", "\n">>
    \o RefinarParametros
    \o <<"# PROMPT ORIGINAL", "\n">> \o prompt

_refinar_prompt(prompt) ==
  LET linhas == SplitOn(prompt, "\n")
      instrucao == IF linhas # <<>> THEN linhas[1] ELSE prompt
      contexto == RefinarContexto
  IN <<"# OBJETIVO PRINCIPAL", "\n">> \o instrucao \o <<"\n", "\n">>
       \o <<"# CONTEXTO", "\n">> \o contexto \o <<"\n", "\n">>
       \o RefinarParametros
       \o <<"# PROMPT ORIGINAL", "\n">> \o prompt

ShortLimit == 10
MediumLimit == 30

\* otimizar_prompt with the first boundary off by one (<= for <).
otimizar_prompt_le(prompt_original) ==
  LET palavras == Len(SplitWords(prompt_original))
  IN IF palavras <= ShortLimit THEN _expandir_prompt(prompt_original)
     ELSE IF palavras < MediumLimit THEN _estruturar_prompt(prompt_original)
     ELSE _refinar_prompt(prompt_original)

otimizar_prompt(prompt_original) ==
  LET palavras == Len(SplitWords(prompt_original))
  IN IF palavras < ShortLimit THEN _expandir_prompt(prompt_original)
     ELSE IF palavras < MediumLimit THEN _estruturar_prompt(prompt_original)
     ELSE _refinar_prompt(prompt_original)

\* Input texts: n words, alternately of one and two letters, separated by
\* sep; the separator after word nl is a newline; lead and trail around.
MaxWords == 31

RECURSIVE TextOf(_, _, _, _)
TextOf(n, nl, sep, k) ==
  IF k > n THEN <<>>
  ELSE (IF k % 2 = 1 THEN <<"w">> ELSE <<"w", "w">>)
         \o (IF k = nl THEN <<"\n">> ELSE IF k < n THEN sep ELSE <<>>)
         \o TextOf(n, nl, sep, k + 1)

OptTexts ==
  {lead \o TextOf(n, nl, sep, 1) \o trail :
     n \in 0..MaxWords, nl \in 0..MaxWords,
     sep \in {<<" ">>, <<" ", "\t">>},
     lead \in {<<>>, <<" ">>, <<"\n">>},
     trail \in {<<>>, <<" ">>}}

InitOpt ==
  /\ pc = "call"
  /\ file = PyNone
  /\ self = PyNone
  /\ args \in [prompt_original : OptTexts]
  /\ ret = PyNone

OtimizarPrompt ==
  /\ pc = "call"
  /\ ret' = PyStr(otimizar_prompt(args.prompt_original))
  /\ pc' = "done"
  /\ UNCHANGED <<file, self, args>>

NextOpt == OtimizarPrompt

SpecOpt == InitOpt /\ [][NextOpt]_vars

(***************************************************************************)
(* Statements about otimizar_prompt.                                       *)
(***************************************************************************)
OptText == args.prompt_original

\* The number of words of s: the positions where a word starts.
WordStarts(s) ==
  Cardinality({i \in 1..Len(s) :
                 /\ s[i] \notin Whitespace
                 /\ i = 1 \/ s[i - 1] \in Whitespace})

IsShort(r, text) ==
  /\ Len(r) = Len(text) + 5
  /\ SubSeq(r, 1, Len(text)) = text
  /\ r[Len(r)] = "Considere diferentes perspectivas e contextos."

IsMedium(r, text) ==
  /\ Len(r) > Len(text) + 2
  /\ r[1] = "# INSTRUCAO"
  /\ SubSeq(r, 3, Len(text) + 2) = text
  /\ r[Len(text) + 5] = "# FORMATO DESEJADO"

IsLong(r, text) ==
  /\ Len(r) > Len(text) + 2
  /\ r[1] = "# OBJETIVO PRINCIPAL"
  /\ r[Len(r) - Len(text) - 1] = "# PROMPT ORIGINAL"

\* C4: an input of n words is laid out as Short when n < 10, as Medium when
\* 10 <= n < 30 and as Long when n >= 30, and as no other layout.
C4_RoutedByWordCount ==
  pc = "done" =>
    LET n == WordStarts(OptText)
        r == ret.val
    IN /\ IsShort(r, OptText) <=> n < 10
       /\ IsMedium(r, OptText) <=> (10 <= n /\ n < 30)
       /\ IsLong(r, OptText) <=> n >= 30

\* An input of exactly ten words, with a tab among its separators and
\* whitespace around it, laid out as Medium.
C4_Witness ==
  /\ pc = "done"
  /\ WordStarts(OptText) = 10
  /\ OptText[1] \in Whitespace
  /\ \E i \in 1..Len(OptText) : OptText[i] = "\t"
  /\ IsMedium(ret.val, OptText)

\* C10: for an input of 30 words or more, the text under the main-objective
\* heading is the input up to its first newline (all of it when it has
\* none), and the output ends with the input under the original-prompt
\* heading.
C10_LongFirstLineAndVerbatim ==
  (pc = "done" /\ WordStarts(OptText) >= 30) =>
    \E k \in 0..Len(OptText) :
      /\ \A i \in 1..k : OptText[i] # "\n"
      /\ k = Len(OptText) \/ OptText[k + 1] = "\n"
      /\ ret.val = <<"# OBJETIVO PRINCIPAL", "\n">> \o SubSeq(OptText, 1, k)
                     \o <<"\n", "\n", "# CONTEXTO", "\n">> \o RefinarContexto
                     \o <<"\n", "\n">> \o RefinarParametros
                     \o <<"# PROMPT ORIGINAL", "\n">> \o OptText

\* A Long input whose first line is a proper, non-empty part of it.
C10_Witness ==
  /\ pc = "done"
  /\ WordStarts(OptText) >= 30
  /\ \E k \in 2..(Len(OptText) - 1) :
       /\ OptText[k] = "\n"
       /\ \A i \in 1..(k - 1) : OptText[i] # "\n"
       /\ SubSeq(ret.val, 3, k + 1) = SubSeq(OptText, 1, k - 1)
       /\ ret.val[k + 2] = "\n"
       /\ ret.val[k + 4] = "# CONTEXTO"

(***************************************************************************)
(* PromptOptimizer.__init__: the two catalogs.  A dict of the source is    *)
(* the sequence of its items in insertion order.                           *)
(***************************************************************************)
Field(name) == <<"{", name, "}">>

templates ==
  << <<<<"criativo">>,
       <<"Atue como ">> \o Field("persona") \o <<". ">> \o Field("contexto")
         \o <<" Crie ">> \o Field("output_type") \o <<" sobre ">>
         \o Field("tema") \o <<" com ">> \o Field("estilo") \o <<".">> >>,
     <<<<"tecnico">>,
       <<"Voce e um especialista em ">> \o Field("area") \o <<". ">>
         \o Field("contexto") \o <<" Explique ">> \o Field("conceito")
         \o <<" com ">> \o Field("nivel_detalhe") \o <<".">> >>,
     <<<<"analise">>,
       <<"Como ">> \o Field("persona") \o <<", analise ">>
         \o Field("objeto_analise") \o <<". ">> \o Field("contexto")
         \o <<" Forneca ">> \o Field("tipo_analise") \o <<" considerando ">>
         \o Field("aspectos") \o <<".">> >>,
     <<<<"instrucao">>,
       <<"Atue como ">> \o Field("persona") \o <<". ">> \o Field("contexto")
         \o <<" Forneca instrucoes detalhadas sobre como ">> \o Field("tarefa")
         \o <<", considerando ">> \o Field("consideracoes") \o <<".">> >>,
     <<<<"pesquisa">>,
       <<"Como pesquisador em ">> \o Field("area") \o <<", ">>
         \o Field("contexto") \o <<" Investigue ">> \o Field("topico")
         \o <<" e forneca ">> \o Field("tipo_resultado") \o <<" focando em ">>
         \o Field("aspectos") \o <<".">> >> >>

estrutura_prompt ==
  << <<<<"basico">>, Field("instrucao")>>,
     <<<<"detalhado">>,
       Field("instrucao") \o <<"\n", "\n", "Contexto: ">> \o Field("contexto")
         \o <<"\n", "Objetivo: ">> \o Field("objetivo")
         \o <<"\n", "Formato desejado: ">> \o Field("formato")>>,
     <<<<"avancado">>,
       <<"# TAREFA", "\n">> \o Field("instrucao")
         \o <<"\n", "\n", "# CONTEXTO", "\n">> \o Field("contexto")
         \o <<"\n", "\n", "# OBJETIVO", "\n">> \o Field("objetivo")
         \o <<"\n", "\n", "# FORMATO", "\n">> \o Field("formato")
         \o <<"\n", "\n", "# RESTRICOES", "\n">> \o Field("restricoes")
         \o <<"\n", "\n", "# EXEMPLOS", "\n">> \o Field("exemplos")>> >>

PromptOptimizerInit ==
  [templates |-> templates, estrutura_prompt |-> estrutura_prompt]

\* ", ".join(d.keys())
JoinKeys(d) == Join([k \in 1..Len(d) |-> d[k][1]], <<",", " ">>)

\* d[key]
DictGet(d, key) == d[CHOOSE k \in 1..Len(d) : d[k][1] = key][2]

(***************************************************************************)
(* str.format with keyword arguments, on a format string of literal text,  *)
(* doubled braces and named fields: one pass over the format string; a     *)
(* field whose name is no key of kwargs raises KeyError.  kwargs is a      *)
(* function of the names.                                                  *)
(***************************************************************************)
RECURSIVE FormatFields(_, _)
FormatFields(t, i) ==
  IF i > Len(t) THEN <<>>
  ELSE IF t[i] \in {"{", "}"} /\ i < Len(t) /\ t[i + 1] = t[i]
       THEN FormatFields(t, i + 2)
       ELSE IF t[i] = "{"
            THEN LET j == IndexOf(t, "}", i + 1)
                 IN <<SubSeq(t, i + 1, j - 1)>> \o FormatFields(t, j + 1)
            ELSE FormatFields(t, i + 1)

RECURSIVE FormatFrom(_, _, _)
FormatFrom(t, kwargs, i) ==
  IF i > Len(t) THEN <<>>
  ELSE IF t[i] \in {"{", "}"} /\ i < Len(t) /\ t[i + 1] = t[i]
       THEN <<t[i]>> \o FormatFrom(t, kwargs, i + 2)
       ELSE IF t[i] = "{"
            THEN LET j == IndexOf(t, "}", i + 1)
                 IN kwargs[SubSeq(t, i + 1, j - 1)] \o FormatFrom(t, kwargs, j + 1)
            ELSE <<t[i]>> \o FormatFrom(t, kwargs, i + 1)

Format(t, kwargs) ==
  LET unknown == SelectSeq(FormatFields(t, 1), LAMBDA f : f \notin DOMAIN kwargs)
  IN IF unknown # <<>> THEN [raised |-> "KeyError", key |-> unknown[1]]
     ELSE [raised |-> "", val |-> FormatFrom(t, kwargs, 1)]

(***************************************************************************)
(* PromptOptimizer.gerar_prompt_basico                                     *)
(***************************************************************************)
gerar_prompt_basico(this, tipo, kwargs) ==
  IF tipo \notin DictKeys(this.templates)
  THEN <<"Tipo invalido. Tipos disponiveis: ">> \o JoinKeys(this.templates)
  ELSE LET template == DictGet(this.templates, tipo)
           formatted == Format(template, kwargs)
       IN IF formatted.raised = "KeyError"
          THEN LET parametros_faltantes == FindAllFrom(template, 1)
               IN <<"Parametros faltantes: ">>
                    \o Join(parametros_faltantes, <<",", " ">>)
          ELSE formatted.val

BasicoTipos == DictKeys(templates) \cup {<<"poetico">>}
BasicoValues == {<<"v">>, Field("tema")}

\* The names a caller may pass with a type: the placeholders of its
\* template and one name that is none of them.
BasicoNames(tipo) ==
  LET names == IF tipo \in DictKeys(templates)
               THEN FindAllFrom(DictGet(templates, tipo), 1) ELSE <<>>
  IN {names[k] : k \in 1..Len(names)} \cup {<<"extra">>}

InitBasico ==
  /\ pc = "call"
  /\ file = PyNone
  /\ self = PromptOptimizerInit
  /\ \E tipo \in BasicoTipos :
       \E S \in SUBSET BasicoNames(tipo) :
         \E kwargs \in [S -> BasicoValues] :
           args = [tipo |-> tipo, kwargs |-> kwargs]
  /\ ret = PyNone

GerarPromptBasico ==
  /\ pc = "call"
  /\ ret' = PyStr(gerar_prompt_basico(self, args.tipo, args.kwargs))
  /\ pc' = "done"
  /\ UNCHANGED <<file, self, args>>

NextBasico == GerarPromptBasico

SpecBasico == InitBasico /\ [][NextBasico]_vars

\* The placeholder names of the type's template that the caller did not
\* supply, in template order.
BasicoMissing ==
  SelectSeq(FindAllFrom(DictGet(templates, args.tipo), 1),
            LAMBDA p : p \notin DOMAIN args.kwargs)

\* C7: with a known type and a placeholder without value, the result is the
\* list of the missing placeholder names, those the caller did not supply.
C7_ReportsMissingNames ==
  (pc = "done" /\ args.tipo \in DictKeys(templates) /\ BasicoMissing # <<>>)
    => ret = PyStr(<<"Parametros faltantes: ">>
                   \o Join(BasicoMissing, <<",", " ">>))

(***************************************************************************)
(* PromptOptimizer.gerar_prompt_estruturado                                *)
(***************************************************************************)
DefaultContexto == <<"Considere o contexto atual e as melhores praticas.">>
DefaultObjetivo == <<"Fornecer informacao clara, precisa e util.">>
DefaultFormato ==
  <<"Texto estruturado com paragrafos logicos e pontos principais destacados.">>
DefaultRestricoes == <<"Mantenha a resposta concisa e focada no objetivo.">>
DefaultExemplos == <<"Exemplo 1: [Breve exemplo relacionado]">>

EstruturadoKwargs(instrucao, contexto, objetivo, formato, restricoes, exemplos) ==
  (<<"instrucao">> :> instrucao) @@ (<<"contexto">> :> contexto)
    @@ (<<"objetivo">> :> objetivo) @@ (<<"formato">> :> formato)
    @@ (<<"restricoes">> :> restricoes) @@ (<<"exemplos">> :> exemplos)

\* The invalid-level message naming the keys of the other catalog, as the
\* invalid-type message of gerar_prompt_basico does.
nivel_invalido_tipos(this) ==
  <<"Nivel invalido. Niveis disponiveis: ">> \o JoinKeys(this.templates)

\* f"Nivel invalido. Niveis disponiveis: {niveis_disponiveis}"
nivel_invalido(this) ==
  <<"Nivel invalido. Niveis disponiveis: ">> \o JoinKeys(this.estrutura_prompt)

\* gerar_prompt_estruturado defaulting an empty contexto at the last level
\* only.
gerar_prompt_estruturado_ctx(this, nivel, instrucao, contexto, objetivo, formato, restricoes, exemplos) ==
  IF nivel \notin DictKeys(this.estrutura_prompt)
  THEN nivel_invalido(this)
  ELSE Format(DictGet(this.estrutura_prompt, nivel),
              EstruturadoKwargs(
                instrucao,
                IF contexto = <<>> /\ nivel = <<"avancado">>
                  THEN DefaultContexto ELSE contexto,
                IF objetivo = <<>> /\ nivel # <<"basico">>
                  THEN DefaultObjetivo ELSE objetivo,
                IF formato = <<>> /\ nivel # <<"basico">>
                  THEN DefaultFormato ELSE formato,
                IF restricoes = <<>> /\ nivel = <<"avancado">>
                  THEN DefaultRestricoes ELSE restricoes,
                IF exemplos = <<>> /\ nivel = <<"avancado">>
                  THEN DefaultExemplos ELSE exemplos)).val

gerar_prompt_estruturado(this, nivel, instrucao, contexto, objetivo, formato, restricoes, exemplos) ==
  IF nivel \notin DictKeys(this.estrutura_prompt)
  THEN nivel_invalido(this)
  ELSE LET template == DictGet(this.estrutura_prompt, nivel)
           contexto1 == IF contexto = <<>> /\ nivel # <<"basico">>
                        THEN DefaultContexto ELSE contexto
           objetivo1 == IF objetivo = <<>> /\ nivel # <<"basico">>
                        THEN DefaultObjetivo ELSE objetivo
           formato1 == IF formato = <<>> /\ nivel # <<"basico">>
                       THEN DefaultFormato ELSE formato
           restricoes1 == IF restricoes = <<>> /\ nivel = <<"avancado">>
                          THEN DefaultRestricoes ELSE restricoes
           exemplos1 == IF exemplos = <<>> /\ nivel = <<"avancado">>
                        THEN DefaultExemplos ELSE exemplos
       IN Format(template,
                 EstruturadoKwargs(instrucao, contexto1, objetivo1, formato1,
                                   restricoes1, exemplos1)).val

EstrNiveis ==
  {<<"basico">>, <<"detalhado">>, <<"avancado">>, <<"extremo">>, <<>>}
EstrValues == {<<>>, <<"x">>, Field("contexto")}

InitEstr ==
  /\ pc = "call"
  /\ file = PyNone
  /\ self = PromptOptimizerInit
  /\ args \in [nivel : EstrNiveis, instrucao : EstrValues,
               contexto : EstrValues, objetivo : EstrValues,
               formato : EstrValues, restricoes : EstrValues,
               exemplos : EstrValues]
  /\ ret = PyNone

GerarPromptEstruturado ==
  /\ pc = "call"
  /\ ret' = PyStr(gerar_prompt_estruturado(
                    self, args.nivel, args.instrucao, args.contexto,
                    args.objetivo, args.formato, args.restricoes,
                    args.exemplos))
  /\ pc' = "done"
  /\ UNCHANGED <<file, self, args>>

NextEstr == GerarPromptEstruturado

SpecEstr == InitEstr /\ [][NextEstr]_vars

(***************************************************************************)
(* Statements about gerar_prompt_estruturado.                              *)
(***************************************************************************)
OrDefault(value, default) == IF value = <<>> THEN default ELSE value

\* C5: at the levels detalhado and avancado an empty contexto, objetivo or
\* formato is replaced by its default sentence and a non-empty one is used
\* as given; at avancado alone the same holds of restricoes and exemplos; at
\* basico the output is the instrucao argument and nothing else.
C5_Defaulting ==
  pc = "done" =>
    /\ args.nivel = <<"basico">> => ret.val = args.instrucao
    /\ args.nivel = <<"detalhado">> =>
         ret.val = args.instrucao
                     \o <<"\n", "\n", "Contexto: ">>
                     \o OrDefault(args.contexto, DefaultContexto)
                     \o <<"\n", "Objetivo: ">>
                     \o OrDefault(args.objetivo, DefaultObjetivo)
                     \o <<"\n", "Formato desejado: ">>
                     \o OrDefault(args.formato, DefaultFormato)
    /\ args.nivel = <<"avancado">> =>
         ret.val = <<"# TAREFA", "\n">> \o args.instrucao
                     \o <<"\n", "\n", "# CONTEXTO", "\n">>
                     \o OrDefault(args.contexto, DefaultContexto)
                     \o <<"\n", "\n", "# OBJETIVO", "\n">>
                     \o OrDefault(args.objetivo, DefaultObjetivo)
                     \o <<"\n", "\n", "# FORMATO", "\n">>
                     \o OrDefault(args.formato, DefaultFormato)
                     \o <<"\n", "\n", "# RESTRICOES", "\n">>
                     \o OrDefault(args.restricoes, DefaultRestricoes)
                     \o <<"\n", "\n", "# EXEMPLOS", "\n">>
                     \o OrDefault(args.exemplos, DefaultExemplos)

\* A call at the level detalhado with an empty contexto, a given objetivo and
\* an empty restricoes: the contexto default appears, the restricoes default
\* does not.
C5_Witness ==
  /\ pc = "done"
  /\ args.nivel = <<"detalhado">>
  /\ args.contexto = <<>>
  /\ args.objetivo = <<"x">>
  /\ args.restricoes = <<>>
  /\ \E i \in 1..Len(ret.val) : ret.val[i] = DefaultContexto[1]
  /\ \A i \in 1..Len(ret.val) :
       ret.val[i] \notin {DefaultObjetivo[1], DefaultRestricoes[1]}

\* C6: with a level that is none of the three, the result is the
\* invalid-level message naming basico, detalhado and avancado, whatever the
\* other arguments.
C6_InvalidLevelMessage ==
  (pc = "done"
     /\ args.nivel \notin {<<"basico">>, <<"detalhado">>, <<"avancado">>})
    => ret.val = <<"Nivel invalido. Niveis disponiveis: ",
                   "basico", ",", " ", "detalhado", ",", " ", "avancado">>

\* A call with the level extremo and every field given.
C6_Witness ==
  /\ pc = "done"
  /\ args.nivel = <<"extremo">>
  /\ \A f \in {"instrucao", "contexto", "objetivo", "formato", "restricoes",
               "exemplos"} : args[f] = <<"x">>
  /\ ret.val[1] = "Nivel invalido. Niveis disponiveis: "

(***************************************************************************)
(* TemplateLoader: the catalog file, the constructor and the lookups.      *)
(***************************************************************************)
MaxCatalog == 2

\* dict.get(key, default)
Get(d, key, default) == IF key \in DOMAIN d THEN d[key] ELSE default

LowerChar(c) ==
  IF c = "A" THEN "a" ELSE IF c = "B" THEN "b" ELSE IF c = "T" THEN "t" ELSE c

\* s.lower()
Lower(s) == [i \in 1..Len(s) |-> LowerChar(s[i])]

EmptyCatalog == [templates |-> <<>>, dicas_otimizacao |-> <<>>]

\* open(templates_file) and json.load: what they return or raise.  A file
\* that cannot be opened for another reason than its absence raises too.
OpenAndLoad(f) ==
  IF f.kind = "absent" THEN [raised |-> "FileNotFoundError"]
  ELSE IF f.kind = "unreadable" THEN [raised |-> "PermissionError"]
  ELSE IF f.kind = "invalid" THEN [raised |-> "JSONDecodeError"]
  ELSE [raised |-> "", val |-> f.content]

\* _load_templates letting the decoding error of json.load through.
_load_templates_uncaught(f) ==
  LET loaded == OpenAndLoad(f)
  IN IF loaded.raised = "FileNotFoundError"
     THEN [raised |-> "", val |-> EmptyCatalog]
     ELSE loaded

_load_templates(f) ==
  LET loaded == OpenAndLoad(f)
  IN IF loaded.raised \in {"FileNotFoundError", "JSONDecodeError"}
     THEN [raised |-> "", val |-> EmptyCatalog]
     ELSE loaded

listar_templates(this) ==
  LET ts == Get(this.templates, "templates", <<>>)
  IN [k \in 1..Len(ts) |-> <<ts[k].nome, ts[k].categoria>>]

\* obter_template without the lower bound on the position: a negative
\* position counts from the end of the list, and raises beyond it.
obter_template_negative(this, nome_ou_indice) ==
  LET ts == Get(this.templates, "templates", <<>>)
      i == nome_ou_indice.val
  IN IF nome_ou_indice.type = "int"
     THEN IF i < Len(ts)
          THEN IF i >= 0 THEN PyDict(ts[i + 1])
               ELSE IF -i <= Len(ts) THEN PyDict(ts[Len(ts) + i + 1])
               ELSE [type |-> "raised", val |-> "IndexError"]
          ELSE PyNone
     ELSE LET hits == {k \in 1..Len(ts) :
                         Lower(ts[k].nome) = Lower(nome_ou_indice.val)}
          IN IF hits = {} THEN PyNone
             ELSE PyDict(ts[CHOOSE k \in hits : \A h \in hits : k <= h])

obter_template(this, nome_ou_indice) ==
  LET ts == Get(this.templates, "templates", <<>>)
  IN IF nome_ou_indice.type = "int"
     THEN IF 0 <= nome_ou_indice.val /\ nome_ou_indice.val < Len(ts)
          THEN PyDict(ts[nome_ou_indice.val + 1])
          ELSE PyNone
     ELSE \* the first template of the loop whose name matches
          LET hits == {k \in 1..Len(ts) :
                         Lower(ts[k].nome) = Lower(nome_ou_indice.val)}
          IN IF hits = {} THEN PyNone
             ELSE PyDict(ts[CHOOSE k \in hits : \A h \in hits : k <= h])

obter_template_por_categoria(this, categoria) ==
  SelectSeq(Get(this.templates, "templates", <<>>),
            LAMBDA t : Lower(t.categoria) = Lower(categoria))

\* The values obter_dica_aleatoria may return: random.choice draws any
\* element of a non-empty list.
obter_dica_aleatoria(this) ==
  LET dicas == Get(this.templates, "dicas_otimizacao", <<>>)
  IN IF dicas # <<>> THEN {dicas[k] : k \in 1..Len(dicas)}
     ELSE {<<"Nao ha dicas disponiveis.">>}

CatalogNames == {<<"a">>, <<"A">>, <<"b">>}
CatalogCategorias == {<<"t">>, <<"T">>}
CatalogEntries ==
  [nome : CatalogNames, categoria : CatalogCategorias,
   template : {Field("a")}]
CatalogDicas == {<<>>, << <<"d1">> >>, << <<"d1">>, <<"d2">> >>}

CatalogFiles ==
  {[kind |-> "absent"], [kind |-> "unreadable"], [kind |-> "invalid"]}
    \cup {[kind |-> "json", content |-> c] :
            c \in [templates : StrUpTo(CatalogEntries, MaxCatalog),
                   dicas_otimizacao : CatalogDicas]
                  \cup [templates : StrUpTo(CatalogEntries, MaxCatalog)]
                  \cup [dicas_otimizacao : CatalogDicas]}

LookupKeys ==
  {PyInt(i) : i \in (-2)..(MaxCatalog + 1)}
    \cup {PyStr(n) : n \in {<<"a">>, <<"A">>, <<"B">>, <<"a", "b">>}}

InitLoader ==
  /\ pc = "new"
  /\ file \in CatalogFiles
  /\ self = PyNone
  /\ args = PyNone
  /\ ret = PyNone

\* TemplateLoader(templates_file)
Construct ==
  /\ pc = "new"
  /\ LET loaded == _load_templates(file)
     IN IF loaded.raised = ""
        THEN /\ self' = [templates |-> loaded.val]
             /\ pc' = "ready"
        ELSE /\ self' = PyNone
             /\ pc' = "raised"
  /\ args' = [op |-> "__init__"]
  /\ UNCHANGED <<file, ret>>

ListarTemplates ==
  /\ pc = "ready"
  /\ args' = [op |-> "listar_templates"]
  /\ ret' = PyList(listar_templates(self))
  /\ UNCHANGED <<pc, file, self>>

ObterTemplate ==
  /\ pc = "ready"
  /\ \E key \in LookupKeys :
       /\ args' = [op |-> "obter_template", key |-> key]
       /\ ret' = obter_template(self, key)
  /\ UNCHANGED <<pc, file, self>>

ObterTemplatePorCategoria ==
  /\ pc = "ready"
  /\ \E categoria \in {<<"t">>, <<"T">>, <<"b">>} :
       /\ args' = [op |-> "obter_template_por_categoria",
                   categoria |-> categoria]
       /\ ret' = PyList(obter_template_por_categoria(self, categoria))
  /\ UNCHANGED <<pc, file, self>>

ObterDicaAleatoria ==
  /\ pc = "ready"
  /\ args' = [op |-> "obter_dica_aleatoria"]
  /\ \E dica \in obter_dica_aleatoria(self) : ret' = PyStr(dica)
  /\ UNCHANGED <<pc, file, self>>

NextLoader ==
  \/ Construct
  \/ ListarTemplates
  \/ ObterTemplate
  \/ ObterTemplatePorCategoria
  \/ ObterDicaAleatoria

SpecLoader == InitLoader /\ [][NextLoader]_vars

(***************************************************************************)
(* Statements about the catalog.                                           *)
(***************************************************************************)
CaseClasses == {{"a", "A"}, {"b", "B"}, {"t", "T"}}

\* s and t are equal ignoring case.
SameIgnoringCase(s, t) ==
  /\ Len(s) = Len(t)
  /\ \A i \in 1..Len(s) :
       s[i] = t[i] \/ \E class \in CaseClasses : {s[i], t[i]} \subseteq class

Loaded == IF "templates" \in DOMAIN self.templates
          THEN self.templates.templates ELSE <<>>

\* C8: a position i gives the entry at i, counted from zero, when
\* 0 <= i < number of templates, and None otherwise; a name gives the first
\* entry in stored order whose nome equals it ignoring case, and None when
\* there is none.
C8_ObterTemplate ==
  (pc = "ready" /\ args.op = "obter_template") =>
    IF args.key.type = "int"
    THEN IF 0 <= args.key.val /\ args.key.val < Len(Loaded)
         THEN ret = PyDict(Loaded[args.key.val + 1])
         ELSE ret = PyNone
    ELSE \/ /\ ret = PyNone
            /\ \A k \in 1..Len(Loaded) :
                 ~SameIgnoringCase(Loaded[k].nome, args.key.val)
         \/ \E k \in 1..Len(Loaded) :
              /\ ret = PyDict(Loaded[k])
              /\ SameIgnoringCase(Loaded[k].nome, args.key.val)
              /\ \A j \in 1..(k - 1) :
                   ~SameIgnoringCase(Loaded[j].nome, args.key.val)

\* A lookup by a name that two entries match ignoring case, neither of them
\* letter for letter: the first of the two is returned.
C8_Witness ==
  /\ pc = "ready"
  /\ args.op = "obter_template"
  /\ args.key = PyStr(<<"A">>)
  /\ Len(Loaded) = 2
  /\ Loaded[1].nome = <<"a">>
  /\ Loaded[2].nome = <<"a">>
  /\ Loaded[1] # Loaded[2]
  /\ ret = PyDict(Loaded[1])

=============================================================================
